---- MODULE Spec2Model ----
(***************************************************************************)
(* Hierarchical task store of the todo backend (app/routes/tasks.py).      *)
(*                                                                         *)
(* The Mongo collection "tasks" is a flat set of documents keyed by _id;   *)
(* every document carries user_id (the owner) and parent_id (a back        *)
(* reference, None for a root task).  Each request handler is modelled     *)
(* twice over the same definition: XResult is the handler as a function    *)
(* from the collection, the request and the clock readings to the new      *)
(* collection and the response, and action X takes that step.              *)
(*                                                                         *)
(*   Spec          two owners; requests handled one after the other, all   *)
(*                 at one clock reading                                    *)
(*   SpecClock     one owner; the clock advances between and inside the    *)
(*                 requests                                                *)
(*   SpecTraverse  the loop of _collect_descendants, one iteration at a    *)
(*                 time, over every stored parent graph, cyclic or not     *)
(*   SpecFields    one owner and one task, every attribute of the request  *)
(*                 bodies varying                                          *)
(*   SpecList      the list request over every small collection            *)
(*   SpecPage      the pagination arithmetic of the list request           *)
(*   SpecAuth      the requests with their Authorization header, resolved  *)
(*                 to the owner or not                                     *)
(*   SpecRace      one owner, two workers: the handlers interleaved at     *)
(*                 their reads and writes of the collection                *)
(***************************************************************************)
EXTENDS Integers, Sequences, FiniteSets, TLC

VARIABLES
    tasks,      \* the collection: a function from stored _id to document
    nextId,     \* the next ObjectId insert_one will generate (never reused)
    now,        \* the wall clock read by _now_iso()
    resp,       \* the response to the last request: its handler and outcome
    cd,         \* the running _collect_descendants call (SpecTraverse)
    pg,         \* the pagination step of the running list request (SpecPage)
    rq          \* the requests in progress, one per worker (SpecRace)

vars == <<tasks, nextId, now, resp, cd, pg, rq>>

---------------------------------------------------------------------------
(* Bounds of the model *)

MaxTasks == 3
MaxTime == 2

(* Python's None (a null parent_id, completed_at, priority; an absent query
   parameter) *)
NULL == 0

(* an id given as one of the strings "", "null" and "None" *)
NullText == -1

Users == {"u1", "u2"}
Ids == 1..MaxTasks
Times == 1..MaxTime

NoBody == [id |-> NULL]
NoCall == [pc |-> "idle"]

(* the workers of the server, each handling one request at a time, and a
   worker between two requests *)
Workers == {"w1", "w2"}
Idle ==
    [pc |-> "idle", op |-> "none", id |-> NULL, body |-> NoBody, cascade |-> FALSE,
     collected |-> <<>>, frontier |-> <<>>]
NoRequests == [w \in Workers |-> Idle]

---------------------------------------------------------------------------
(* Helpers over the collection *)

RECURSIVE SortedSeq(_)
(* a cursor over a set of _id values in natural (insertion = _id) order *)
SortedSeq(S) ==
    IF S = {} THEN <<>>
    ELSE LET m == CHOOSE x \in S : \A y \in S : x <= y
         IN <<m>> \o SortedSeq(S \ {m})

SeqToSet(s) == {s[i] : i \in DOMAIN s}

(* FindOne with the user_id key left out of the filter *)
FindOneAnyOwner(store, user, oid) ==
    oid \in DOMAIN store

(* tasks.find_one({"_id": oid, "user_id": ObjectId(user_id)}) found something *)
FindOne(store, user, oid) ==
    oid \in DOMAIN store /\ store[oid].user_id = user

(* tasks.find({"parent_id": cur, "user_id": ObjectId(user_id)}, {"_id": 1}) *)
FindChildren(store, user, cur) ==
    SortedSeq({c \in DOMAIN store :
                  store[c].parent_id = cur /\ store[c].user_id = user})

(* _oid: "", "null", "None" and a missing value give None; an id gives itself *)
Oid(objId) == IF objId \in {NULL, NullText} THEN NULL ELSE objId

(* CollectStep with the children collected but not pushed on the frontier *)
CollectStepChildrenOnly(store, user, st) ==
    LET n == Len(st.frontier)
        cur == st.frontier[n]
        childIds == FindChildren(store, user, cur)
    IN [collected |-> st.collected \o childIds,
        frontier |-> SubSeq(st.frontier, 1, n - 1)]

(* one iteration of the while loop of _collect_descendants *)
CollectStep(store, user, st) ==
    LET n == Len(st.frontier)
        cur == st.frontier[n]
        childIds == FindChildren(store, user, cur)
    IN [collected |-> st.collected \o childIds,
        frontier |-> SubSeq(st.frontier, 1, n - 1) \o childIds]

RECURSIVE CollectLoop(_, _, _)
CollectLoop(store, user, st) ==
    IF st.frontier = <<>> THEN st.collected
    ELSE CollectLoop(store, user, CollectStep(store, user, st))

(* _collect_descendants(user_id, root_oid): the list it returns *)
CollectDescendants(store, user, rootOid) ==
    CollectLoop(store, user, [collected |-> <<rootOid>>, frontier |-> <<rootOid>>])

(* _has_children *)
HasChildren(store, user, oid) ==
    Cardinality({c \in DOMAIN store :
                    store[c].parent_id = oid /\ store[c].user_id = user}) > 0

(* PreventCircularParent without the descendant scan *)
PreventCircularParentSelfOnly(store, user, taskOid, newParentOid) ==
    IF newParentOid = NULL THEN "none"
    ELSE IF taskOid = newParentOid THEN "CircularParent"
    ELSE "none"

(* PreventCircularParent scanning the direct children only *)
PreventCircularParentChildrenOnly(store, user, taskOid, newParentOid) ==
    IF newParentOid = NULL THEN "none"
    ELSE IF taskOid = newParentOid THEN "CircularParent"
    ELSE IF newParentOid \in SeqToSet(FindChildren(store, user, taskOid))
         THEN "CircularParent"
    ELSE "none"

(* _prevent_circular_parent: the error it raises, or "none" *)
PreventCircularParent(store, user, taskOid, newParentOid) ==
    IF newParentOid = NULL THEN "none"
    ELSE IF taskOid = newParentOid THEN "CircularParent"
    ELSE IF newParentOid \in SeqToSet(CollectDescendants(store, user, taskOid))
         THEN "CircularParent"
    ELSE "none"

(* _serialize_task *)
SerializeTask(oid, doc) ==
    [id |-> oid,
     user_id |-> doc.user_id,
     title |-> doc.title,
     description |-> doc.description,
     priority |-> doc.priority,
     estimate_minutes |-> doc.estimate_minutes,
     due_date |-> doc.due_date,
     parent_id |-> IF doc.parent_id # NULL THEN doc.parent_id ELSE NULL,
     completed |-> doc.completed,
     created_at |-> doc.created_at,
     updated_at |-> doc.updated_at,
     completed_at |-> doc.completed_at]

(* a ValidationError of the given kind, and a 2xx response *)
Err(op, kind) == [op |-> op, error |-> kind, body |-> NoBody]
Ok(op, body) == [op |-> op, error |-> "none", body |-> body]

Remove(store, ids) == [i \in DOMAIN store \ ids |-> store[i]]

---------------------------------------------------------------------------
(* Request payloads *)

(* the values the plain attributes take in the richer request bodies: two
   titles, no description or the one text (written 1), no priority or the
   highest, no estimate or five minutes *)
Titles == {"a", "b"}
Descriptions == {NULL, 1}
Priorities == {NULL, 1}
Estimates == {NULL, 5}

(* bodies accepted by TaskBaseSchema: an attribute left out of the body
   arrives as None, completed as False *)
CreateBodies(titles, descriptions, priorities, estimates, dues, parents) ==
    [title : titles, description : descriptions, priority : priorities,
     estimate_minutes : estimates, due_date : dues, parent_id : parents,
     completed : BOOLEAN]

CreatePayloads(titles, priorities) ==
    CreateBodies(titles, {NULL}, priorities, {NULL}, {NULL}, {NULL} \cup Ids)

(* bodies given to TaskUpdateSchema: present is the set of keys the body
   holds, a key that is not present carries a placeholder that is never read *)
UpdateBodies(fields, titles, descriptions, priorities, estimates, dues, parents) ==
    {u \in [present : SUBSET fields, title : titles, description : descriptions,
            priority : priorities, estimate_minutes : estimates, due_date : dues,
            parent_id : parents, completed : BOOLEAN] :
        /\ "title" \notin u.present => u.title = "a"
        /\ "description" \notin u.present => u.description = NULL
        /\ "priority" \notin u.present => u.priority = NULL
        /\ "estimate_minutes" \notin u.present => u.estimate_minutes = NULL
        /\ "due_date" \notin u.present => u.due_date = NULL
        /\ "parent_id" \notin u.present => u.parent_id = NULL
        /\ "completed" \notin u.present => u.completed = FALSE}

UpdatePayloads(fields, titles, priorities) ==
    UpdateBodies(fields, titles, {NULL}, priorities, {NULL}, {NULL}, {NULL} \cup Ids)

(* the requests of Spec: the hierarchy and the completion state vary, the
   plain attributes (title, priority) keep one value *)
TreeCreates == CreatePayloads({"a"}, {NULL})
TreeUpdates == UpdatePayloads({"parent_id", "completed"}, {"a"}, {NULL})
ClockUpdates == UpdatePayloads({"parent_id", "completed", "title"}, {"a"}, {NULL})

---------------------------------------------------------------------------
(* TasksCollection.post *)

(* CreateParentError looking the parent up by _id alone *)
CreateParentErrorAnyOwner(store, user, parentOid) ==
    IF parentOid # NULL /\ parentOid \notin DOMAIN store
    THEN "ParentNotFound" ELSE "none"

(* the parent lookup of post: the error it raises, or "none" *)
CreateParentError(store, user, parentOid) ==
    IF parentOid # NULL /\ ~FindOne(store, user, parentOid)
    THEN "ParentNotFound" ELSE "none"

(* NewDoc without the due date of the body *)
NewDocDropsDueDate(user, p, parentOid, nowIso) ==
    [user_id |-> user,
     title |-> p.title,
     description |-> p.description,
     priority |-> p.priority,
     estimate_minutes |-> p.estimate_minutes,
     due_date |-> NULL,
     parent_id |-> parentOid,
     completed |-> p.completed,
     created_at |-> nowIso,
     updated_at |-> nowIso,
     completed_at |-> IF p.completed THEN nowIso ELSE NULL]

NewDoc(user, p, parentOid, nowIso) ==
    [user_id |-> user,
     title |-> p.title,
     description |-> p.description,
     priority |-> p.priority,
     estimate_minutes |-> p.estimate_minutes,
     due_date |-> p.due_date,
     parent_id |-> parentOid,
     completed |-> p.completed,
     created_at |-> nowIso,
     updated_at |-> nowIso,
     completed_at |-> IF p.completed THEN nowIso ELSE NULL]

(* post with insert_one generating newId and _now_iso() returning nowIso *)
CreateResult(store, newId, user, p, nowIso) ==
    LET parentOid == Oid(p.parent_id)
        doc == NewDoc(user, p, parentOid, nowIso)
    IN IF CreateParentError(store, user, parentOid) # "none"
       THEN [tasks |-> store,
             resp |-> Err("create", CreateParentError(store, user, parentOid))]
       ELSE [tasks |-> (newId :> doc) @@ store,
             resp |-> Ok("create", SerializeTask(newId, doc))]

(* the handler's step: the collection and the response become those of r, the
   clock has reached the handler's last reading of it (a request that fails
   leaves no trace of its readings) *)
Commit(r, lastRead) ==
    /\ r.resp.error # "none" => lastRead = now
    /\ tasks' = r.tasks
    /\ resp' = r.resp
    /\ now' = lastRead
    /\ UNCHANGED <<cd, pg, rq>>

Create(user, p, nowIso) ==
    /\ nowIso >= now
    /\ Commit(CreateResult(tasks, nextId, user, p, nowIso), nowIso)
    /\ nextId' = IF resp'.error = "none" THEN nextId + 1 ELSE nextId
    /\ nextId' <= MaxTasks + 1

---------------------------------------------------------------------------
(* TaskResource.get (include_subtasks absent or false) *)

GetResult(store, user, taskId) ==
    LET oid == Oid(taskId) IN
    IF oid = NULL THEN Err("get", "ValidationFailed")
    ELSE IF ~FindOne(store, user, oid) THEN Err("get", "TaskNotFound")
    ELSE Ok("get", SerializeTask(oid, store[oid]))

Get(user, taskId) ==
    /\ resp' = GetResult(tasks, user, taskId)
    /\ UNCHANGED <<tasks, nextId, now, cd, pg, rq>>

---------------------------------------------------------------------------
(* TaskResource.get with include_subtasks=true: _build_subtree *)

RECURSIVE FetchChildren(_, _, _)
(* fetch_children(parent_oid): the children found, each serialized with its
   own children under "subtasks" *)
FetchChildren(store, user, parentOid) ==
    LET children == FindChildren(store, user, parentOid) IN
    [k \in DOMAIN children |->
        SerializeTask(children[k], store[children[k]])
            @@ [subtasks |-> FetchChildren(store, user, children[k])]]

(* BuildSubtree attaching the children without their own subtasks *)
BuildSubtreeOneLevel(store, user, rootId) ==
    LET children == FindChildren(store, user, rootId) IN
    IF ~FindOne(store, user, rootId) THEN Err("get", "TaskNotFound")
    ELSE Ok("get", SerializeTask(rootId, store[rootId])
                      @@ [subtasks |->
                             [k \in DOMAIN children |->
                                 SerializeTask(children[k], store[children[k]])
                                     @@ [subtasks |-> <<>>]]])

(* _build_subtree(user_id, root_id) *)
BuildSubtree(store, user, rootId) ==
    IF ~FindOne(store, user, rootId) THEN Err("get", "TaskNotFound")
    ELSE Ok("get", SerializeTask(rootId, store[rootId])
                      @@ [subtasks |-> FetchChildren(store, user, rootId)])

GetSubtreeResult(store, user, taskId) ==
    LET oid == Oid(taskId) IN
    IF oid = NULL THEN Err("get", "ValidationFailed")
    ELSE BuildSubtree(store, user, oid)

GetSubtree(user, taskId) ==
    /\ resp' = GetSubtreeResult(tasks, user, taskId)
    /\ UNCHANGED <<tasks, nextId, now, cd, pg, rq>>

---------------------------------------------------------------------------
(* TaskResource.patch *)

(* ApplySetOps writing completed_at only when the task becomes completed *)
ApplySetOpsStaleCompletedAt(doc, u, newParentOid, completedAt, updatedAt) ==
    [user_id |-> doc.user_id,
     title |-> IF "title" \in u.present THEN u.title ELSE doc.title,
     description |-> IF "description" \in u.present
                     THEN u.description ELSE doc.description,
     priority |-> IF "priority" \in u.present THEN u.priority ELSE doc.priority,
     estimate_minutes |-> IF "estimate_minutes" \in u.present
                          THEN u.estimate_minutes ELSE doc.estimate_minutes,
     due_date |-> IF "due_date" \in u.present THEN u.due_date ELSE doc.due_date,
     parent_id |-> IF "parent_id" \in u.present THEN newParentOid ELSE doc.parent_id,
     completed |-> IF "completed" \in u.present THEN u.completed ELSE doc.completed,
     created_at |-> doc.created_at,
     updated_at |-> updatedAt,
     completed_at |-> IF "completed" \in u.present /\ u.completed
                      THEN completedAt
                      ELSE doc.completed_at]

(* ApplySetOps writing None for the optional attributes the body leaves out *)
ApplySetOpsFullReplace(doc, u, newParentOid, completedAt, updatedAt) ==
    [user_id |-> doc.user_id,
     title |-> IF "title" \in u.present THEN u.title ELSE doc.title,
     description |-> IF "description" \in u.present THEN u.description ELSE NULL,
     priority |-> IF "priority" \in u.present THEN u.priority ELSE NULL,
     estimate_minutes |-> IF "estimate_minutes" \in u.present
                          THEN u.estimate_minutes ELSE NULL,
     due_date |-> IF "due_date" \in u.present THEN u.due_date ELSE NULL,
     parent_id |-> IF "parent_id" \in u.present THEN newParentOid ELSE doc.parent_id,
     completed |-> IF "completed" \in u.present THEN u.completed ELSE doc.completed,
     created_at |-> doc.created_at,
     updated_at |-> updatedAt,
     completed_at |-> IF "completed" \in u.present
                      THEN (IF u.completed THEN completedAt ELSE NULL)
                      ELSE doc.completed_at]

(* the document after update_one({"$set": set_ops}): completedAt is the clock
   read for completed_at, updatedAt the later one read for updated_at *)
ApplySetOps(doc, u, newParentOid, completedAt, updatedAt) ==
    [user_id |-> doc.user_id,
     title |-> IF "title" \in u.present THEN u.title ELSE doc.title,
     description |-> IF "description" \in u.present
                     THEN u.description ELSE doc.description,
     priority |-> IF "priority" \in u.present THEN u.priority ELSE doc.priority,
     estimate_minutes |-> IF "estimate_minutes" \in u.present
                          THEN u.estimate_minutes ELSE doc.estimate_minutes,
     due_date |-> IF "due_date" \in u.present THEN u.due_date ELSE doc.due_date,
     parent_id |-> IF "parent_id" \in u.present THEN newParentOid ELSE doc.parent_id,
     completed |-> IF "completed" \in u.present THEN u.completed ELSE doc.completed,
     created_at |-> doc.created_at,
     updated_at |-> updatedAt,
     completed_at |-> IF "completed" \in u.present
                      THEN (IF u.completed THEN completedAt ELSE NULL)
                      ELSE doc.completed_at]

(* PatchParentError without the lookup of the new parent *)
PatchParentErrorUnchecked(store, user, oid, u) ==
    IF "parent_id" \notin u.present THEN "none"
    ELSE PreventCircularParent(store, user, oid, Oid(u.parent_id))

(* the parent_id branch of patch: the error it raises, or "none" *)
PatchParentError(store, user, oid, u) ==
    LET newParentOid == Oid(u.parent_id) IN
    IF "parent_id" \notin u.present THEN "none"
    ELSE IF newParentOid # NULL /\ ~FindOne(store, user, newParentOid)
         THEN "ParentNotFound"
    ELSE PreventCircularParent(store, user, oid, newParentOid)

(* PatchResult without the at_least_one check of TaskUpdateSchema *)
PatchResultNoSchemaCheck(store, user, taskId, u, completedAt, updatedAt) ==
    LET oid == Oid(taskId)
        parentError == PatchParentError(store, user, oid, u)
        doc == ApplySetOps(store[oid], u, Oid(u.parent_id), completedAt, updatedAt)
    IN IF oid = NULL
       THEN [tasks |-> store, resp |-> Err("patch", "ValidationFailed")]
       ELSE IF ~FindOne(store, user, oid)
       THEN [tasks |-> store, resp |-> Err("patch", "TaskNotFound")]
       ELSE IF parentError # "none"
       THEN [tasks |-> store, resp |-> Err("patch", parentError)]
       ELSE [tasks |-> [store EXCEPT ![oid] = doc],
             resp |-> Ok("patch", SerializeTask(oid, doc))]

(* PatchResult marking the descendants too when it sets completed = true *)
PatchResultCascades(store, user, taskId, u, completedAt, updatedAt) ==
    LET oid == Oid(taskId)
        parentError == PatchParentError(store, user, oid, u)
        doc == ApplySetOps(store[oid], u, Oid(u.parent_id), completedAt, updatedAt)
        below == IF "completed" \in u.present /\ u.completed
                 THEN SeqToSet(CollectDescendants(store, user, oid)) \ {oid}
                 ELSE {}
    IN IF u.present = {}
       THEN [tasks |-> store, resp |-> Err("patch", "EmptyUpdate")]
       ELSE IF oid = NULL
       THEN [tasks |-> store, resp |-> Err("patch", "ValidationFailed")]
       ELSE IF ~FindOne(store, user, oid)
       THEN [tasks |-> store, resp |-> Err("patch", "TaskNotFound")]
       ELSE IF parentError # "none"
       THEN [tasks |-> store, resp |-> Err("patch", parentError)]
       ELSE [tasks |-> [i \in DOMAIN store |->
                           IF i = oid THEN doc
                           ELSE IF i \in below
                           THEN [store[i] EXCEPT !.completed = TRUE,
                                                 !.completed_at = completedAt]
                           ELSE store[i]],
             resp |-> Ok("patch", SerializeTask(oid, doc))]

PatchResult(store, user, taskId, u, completedAt, updatedAt) ==
    LET oid == Oid(taskId)
        parentError == PatchParentError(store, user, oid, u)
        doc == ApplySetOps(store[oid], u, Oid(u.parent_id), completedAt, updatedAt)
    IN IF u.present = {}
       THEN [tasks |-> store, resp |-> Err("patch", "EmptyUpdate")]
       ELSE IF oid = NULL
       THEN [tasks |-> store, resp |-> Err("patch", "ValidationFailed")]
       ELSE IF ~FindOne(store, user, oid)
       THEN [tasks |-> store, resp |-> Err("patch", "TaskNotFound")]
       ELSE IF parentError # "none"
       THEN [tasks |-> store, resp |-> Err("patch", parentError)]
       ELSE [tasks |-> [store EXCEPT ![oid] = doc],
             resp |-> Ok("patch", SerializeTask(oid, doc))]

Patch(user, taskId, u, completedAt, updatedAt) ==
    /\ now <= completedAt /\ completedAt <= updatedAt
    /\ ("completed" \notin u.present \/ ~u.completed) => completedAt = now
    /\ Commit(PatchResult(tasks, user, taskId, u, completedAt, updatedAt), updatedAt)
    /\ UNCHANGED nextId

---------------------------------------------------------------------------
(* TaskResource.delete *)

(* DeleteMany removing the first matching document only *)
DeleteManyFirstOnly(store, user, ids) ==
    LET hit == {i \in ids : FindOne(store, user, i)} IN
    Remove(store, {i \in hit : \A j \in hit : i <= j})

(* delete_many / delete_one with the filter {"_id": {"$in": ids}, "user_id": uid} *)
DeleteMany(store, user, ids) ==
    Remove(store, {i \in ids : FindOne(store, user, i)})

(* DeleteResult without the _has_children check *)
DeleteResultUnchecked(store, user, taskId, cascade) ==
    LET oid == Oid(taskId) IN
    IF oid = NULL
    THEN [tasks |-> store, resp |-> Err("delete", "ValidationFailed")]
    ELSE IF ~FindOne(store, user, oid)
    THEN [tasks |-> store, resp |-> Err("delete", "TaskNotFound")]
    ELSE IF cascade
    THEN [tasks |-> DeleteMany(store, user,
                               SeqToSet(CollectDescendants(store, user, oid))),
          resp |-> Ok("delete", NoBody)]
    ELSE [tasks |-> DeleteMany(store, user, {oid}),
          resp |-> Ok("delete", NoBody)]

(* DeleteResult with the cascade running before the scoped lookup *)
DeleteResultCascadeFirst(store, user, taskId, cascade) ==
    LET oid == Oid(taskId) IN
    IF oid = NULL
    THEN [tasks |-> store, resp |-> Err("delete", "ValidationFailed")]
    ELSE IF cascade
    THEN [tasks |-> DeleteMany(store, user,
                               SeqToSet(CollectDescendants(store, user, oid))),
          resp |-> Ok("delete", NoBody)]
    ELSE IF ~FindOne(store, user, oid)
    THEN [tasks |-> store, resp |-> Err("delete", "TaskNotFound")]
    ELSE IF HasChildren(store, user, oid)
    THEN [tasks |-> store, resp |-> Err("delete", "HasChildren")]
    ELSE [tasks |-> DeleteMany(store, user, {oid}),
          resp |-> Ok("delete", NoBody)]

DeleteResult(store, user, taskId, cascade) ==
    LET oid == Oid(taskId) IN
    IF oid = NULL
    THEN [tasks |-> store, resp |-> Err("delete", "ValidationFailed")]
    ELSE IF ~FindOne(store, user, oid)
    THEN [tasks |-> store, resp |-> Err("delete", "TaskNotFound")]
    ELSE IF cascade
    THEN [tasks |-> DeleteMany(store, user,
                               SeqToSet(CollectDescendants(store, user, oid))),
          resp |-> Ok("delete", NoBody)]
    ELSE IF HasChildren(store, user, oid)
    THEN [tasks |-> store, resp |-> Err("delete", "HasChildren")]
    ELSE [tasks |-> DeleteMany(store, user, {oid}),
          resp |-> Ok("delete", NoBody)]

Delete(user, taskId, cascade) ==
    /\ Commit(DeleteResult(tasks, user, taskId, cascade), now)
    /\ UNCHANGED nextId

---------------------------------------------------------------------------
(* TaskComplete.post *)

(* CompleteMany leaving the tasks that are already completed alone *)
CompleteManySkipDone(store, user, ids, when) ==
    [i \in DOMAIN store |->
        IF i \in ids /\ store[i].user_id = user /\ ~store[i].completed
        THEN [store[i] EXCEPT !.completed = TRUE,
                              !.completed_at = when,
                              !.updated_at = when]
        ELSE store[i]]

(* CompleteMany keeping the completed_at a task already has *)
CompleteManyKeepStamp(store, user, ids, when) ==
    [i \in DOMAIN store |->
        IF i \in ids /\ store[i].user_id = user
        THEN [store[i] EXCEPT !.completed = TRUE,
                              !.completed_at = IF store[i].completed_at = NULL
                                               THEN when
                                               ELSE store[i].completed_at,
                              !.updated_at = when]
        ELSE store[i]]

(* update_many({"_id": {"$in": ids}, "user_id": uid}, {"$set": {...}}) *)
CompleteMany(store, user, ids, when) ==
    [i \in DOMAIN store |->
        IF i \in ids /\ store[i].user_id = user
        THEN [store[i] EXCEPT !.completed = TRUE,
                              !.completed_at = when,
                              !.updated_at = when]
        ELSE store[i]]

CompleteResult(store, user, taskId, when) ==
    LET oid == Oid(taskId)
        updated == CompleteMany(store, user,
                                SeqToSet(CollectDescendants(store, user, oid)), when)
    IN IF oid = NULL
       THEN [tasks |-> store, resp |-> Err("complete", "ValidationFailed")]
       ELSE IF ~FindOne(store, user, oid)
       THEN [tasks |-> store, resp |-> Err("complete", "TaskNotFound")]
       ELSE [tasks |-> updated,
             resp |-> Ok("complete", SerializeTask(oid, updated[oid]))]

Complete(user, taskId, when) ==
    /\ when >= now
    /\ Commit(CompleteResult(tasks, user, taskId, when), when)
    /\ UNCHANGED nextId

---------------------------------------------------------------------------
(* TasksCollection.get: the list request (without the free-text parameter q,
   whose branch is skipped when q is absent) *)

(* the due_date strings of the model, numbered in the binary order in which
   MongoDB compares strings ('+' sorts before 'Z'):
     "2024-01-01T00:00:00+00:00" < "2024-01-01T00:00:00Z" < "2024-01-02T00:00:00Z" *)
DueOffset == 1
DueZulu == 2
DueNextDay == 3
DueTexts == {DueOffset, DueZulu, DueNextDay}

(* _parse_iso(s).isoformat().replace("+00:00", "Z"): the offset form is
   rewritten with a trailing Z, the Z forms come back as they were *)
IsoNormal(s) == IF s = DueOffset THEN DueZulu ELSE s

(* the binary order of the title strings of the model *)
TitleRank(title) == IF title = "a" THEN 1 ELSE 2

(* query strings accepted by TaskQuerySchema: present holds the filters given;
   parent_id is NULL when it is omitted or null *)
ListQueries(fields, priorities, dues, parents, sorts, orders, pages, sizes) ==
    {q \in [present : SUBSET fields, completed : BOOLEAN, priority : priorities,
            due_before : dues, due_after : dues, parent_id : parents,
            sort_by : sorts, sort_order : orders, page : pages, page_size : sizes] :
        /\ "completed" \notin q.present => q.completed = FALSE
        /\ "priority" \notin q.present => q.priority = CHOOSE x \in priorities : TRUE
        /\ "due_before" \notin q.present => q.due_before = CHOOSE x \in dues : TRUE
        /\ "due_after" \notin q.present => q.due_after = CHOOSE x \in dues : TRUE}

(* a document passes flt: the owner, the filters given, and the parent, which
   is None unless a parent_id is given.  $lte and $gte against a string match
   no document whose due_date is null *)
MatchesFilter(doc, user, q) ==
    /\ doc.user_id = user
    /\ "completed" \in q.present => doc.completed = q.completed
    /\ "priority" \in q.present => doc.priority = q.priority
    /\ "due_before" \in q.present =>
          doc.due_date # NULL /\ doc.due_date <= IsoNormal(q.due_before)
    /\ "due_after" \in q.present =>
          doc.due_date # NULL /\ doc.due_date >= IsoNormal(q.due_after)
    /\ doc.parent_id = (IF q.parent_id # NULL THEN Oid(q.parent_id) ELSE NULL)

(* tasks.find(flt): the _id values of the documents found *)
FindMatching(store, user, q) ==
    {i \in DOMAIN store : MatchesFilter(store[i], user, q)}

(* MakeSort ordering the documents of equal field value by ascending _id *)
MakeSortIdAscending(sortBy, sortOrder) ==
    [field |-> sortBy,
     order |-> IF sortOrder = "desc" THEN -1 ELSE 1,
     idOrder |-> 1]

(* _make_sort: [(sort_field, order), ("_id", order)] *)
MakeSort(sortBy, sortOrder) ==
    [field |-> sortBy,
     order |-> IF sortOrder = "desc" THEN -1 ELSE 1,
     idOrder |-> IF sortOrder = "desc" THEN -1 ELSE 1]

(* the place of a document's field value in MongoDB's order of values: null
   before every number and every string *)
SortValue(doc, field) ==
    IF field = "title" THEN TitleRank(doc.title)
    ELSE IF doc[field] = NULL THEN -1
    ELSE doc[field]

(* document a comes before document b under the sort specification *)
SortsBefore(store, sortSpec, a, b) ==
    IF SortValue(store[a], sortSpec.field) # SortValue(store[b], sortSpec.field)
    THEN IF sortSpec.order = 1
         THEN SortValue(store[a], sortSpec.field) < SortValue(store[b], sortSpec.field)
         ELSE SortValue(store[a], sortSpec.field) > SortValue(store[b], sortSpec.field)
    ELSE IF sortSpec.idOrder = 1 THEN a < b ELSE a > b

RECURSIVE SortCursor(_, _, _)
(* cursor.sort(sort_spec) over the documents with the given _id values *)
SortCursor(store, sortSpec, found) ==
    IF found = {} THEN <<>>
    ELSE LET first == CHOOSE a \in found :
                          \A b \in found \ {a} : SortsBefore(store, sortSpec, a, b)
         IN <<first>> \o SortCursor(store, sortSpec, found \ {first})

(* SkipLimit without the skip *)
SkipLimitNoSkip(cursor, n, m) ==
    SubSeq(cursor, 1, IF m < Len(cursor) THEN m ELSE Len(cursor))

(* cursor.skip(n).limit(m) *)
SkipLimit(cursor, n, m) ==
    SubSeq(cursor, n + 1, IF n + m < Len(cursor) THEN n + m ELSE Len(cursor))

Min(a, b) == IF a < b THEN a ELSE b
Max(a, b) == IF a > b THEN a ELSE b

(* last_page = (total + page_size - 1) // page_size if page_size > 0 else 1 *)
LastPage(total, pageSize) ==
    IF pageSize > 0 THEN (total + pageSize - 1) \div pageSize ELSE 1

(* page = max(1, min(page, max(1, last_page))) *)
ClampPage(page, lastPage) == Max(1, Min(page, Max(1, lastPage)))

(* PageMeta with the requested page taken as it is *)
PageMetaUnclamped(total, page, pageSize) ==
    LET lastPage == LastPage(total, pageSize) IN
    [total |-> total,
     total_pages |-> lastPage,
     first_page |-> 1,
     last_page |-> IF lastPage # 0 THEN lastPage ELSE 1,
     page |-> page,
     previous_page |-> IF page > 1 THEN page - 1 ELSE NULL,
     next_page |-> IF page < (IF lastPage # 0 THEN lastPage ELSE 1)
                   THEN page + 1 ELSE NULL]

(* meta, for the page the request names: "last_page or 1" is 1 when last_page
   is 0 *)
PageMeta(total, page, pageSize) ==
    LET lastPage == LastPage(total, pageSize)
        used == ClampPage(page, lastPage)
    IN [total |-> total,
        total_pages |-> lastPage,
        first_page |-> 1,
        last_page |-> IF lastPage # 0 THEN lastPage ELSE 1,
        page |-> used,
        previous_page |-> IF used > 1 THEN used - 1 ELSE NULL,
        next_page |-> IF used < (IF lastPage # 0 THEN lastPage ELSE 1)
                      THEN used + 1 ELSE NULL]

(* the items of the response: the page of the sorted cursor, serialized *)
ListItems(store, cursor) ==
    [k \in DOMAIN cursor |-> SerializeTask(cursor[k], store[cursor[k]])]

ListResult(store, user, q) ==
    LET found == FindMatching(store, user, q)
        meta == PageMeta(Cardinality(found), q.page, q.page_size)
        cursor == SkipLimit(SortCursor(store, MakeSort(q.sort_by, q.sort_order), found),
                            (meta.page - 1) * q.page_size, q.page_size)
    IN [tasks |-> store,
        resp |-> Ok("list", [items |-> ListItems(store, cursor), meta |-> meta])]

List(user, q) ==
    /\ Commit(ListResult(tasks, user, q), now)
    /\ UNCHANGED nextId

---------------------------------------------------------------------------
(* The service: requests handled one after the other, from an empty collection *)

Init ==
    /\ tasks = [i \in {} |-> NULL]
    /\ nextId = 1
    /\ now = 1
    /\ resp = Ok("none", NoBody)
    /\ cd = NoCall
    /\ pg = NoCall
    /\ rq = NoRequests

Next ==
    \/ \E user \in Users, p \in TreeCreates : Create(user, p, now)
    \/ \E user \in Users, taskId \in Ids : Get(user, taskId)
    \/ \E user \in Users, taskId \in Ids : GetSubtree(user, taskId)
    \/ \E user \in Users, taskId \in Ids, u \in TreeUpdates :
          Patch(user, taskId, u, now, now)
    \/ \E user \in Users, taskId \in Ids, cascade \in BOOLEAN :
          Delete(user, taskId, cascade)
    \/ \E user \in Users, taskId \in Ids : Complete(user, taskId, now)

(* Two owners; every request is served at the same clock reading *)
Spec == Init /\ [][Next]_vars

---------------------------------------------------------------------------
(* One owner, with the clock advancing between and inside the requests *)

ClockUser == "u1"

NextClock ==
    \/ \E p \in TreeCreates, nowIso \in Times : Create(ClockUser, p, nowIso)
    \/ \E taskId \in Ids : Get(ClockUser, taskId)
    \/ \E taskId \in Ids, u \in ClockUpdates, completedAt \in Times, updatedAt \in Times :
          Patch(ClockUser, taskId, u, completedAt, updatedAt)
    \/ \E taskId \in Ids, cascade \in BOOLEAN : Delete(ClockUser, taskId, cascade)
    \/ \E taskId \in Ids, when \in Times : Complete(ClockUser, taskId, when)

SpecClock == Init /\ [][NextClock]_vars

---------------------------------------------------------------------------
(* _collect_descendants, one iteration of its loop at a time, over a stored
   parent graph that need not be a forest: every parent_id is null or the _id
   of another stored task of the same owner, which is what two interleaved
   re-parenting requests can leave behind *)

PlainDoc(user, parentOid) ==
    [user_id |-> user, title |-> "a", description |-> NULL, priority |-> NULL,
     estimate_minutes |-> NULL, due_date |-> NULL, parent_id |-> parentOid,
     completed |-> FALSE, created_at |-> 1, updated_at |-> 1, completed_at |-> NULL]

(* the graphs over the stored tasks whose owners are given by owner *)
GraphsOwnedBy(owner) ==
    LET stored == DOMAIN owner IN
    {[i \in stored |-> PlainDoc(owner[i], parent[i])] :
        parent \in {f \in [stored -> {NULL} \cup stored] :
                      \A i \in stored :
                         f[i] # NULL => f[i] # i /\ owner[f[i]] = owner[i]}}

ParentGraphs ==
    UNION {GraphsOwnedBy(owner) :
              owner \in UNION {[stored -> Users] : stored \in SUBSET Ids}}

InitTraverse ==
    /\ tasks \in ParentGraphs
    /\ nextId = MaxTasks + 1
    /\ now = 1
    /\ resp = Ok("none", NoBody)
    /\ cd = NoCall
    /\ pg = NoCall
    /\ rq = NoRequests

(* the call: collected = [root_oid], frontier = [root_oid] *)
CollectCall(user, rootOid) ==
    /\ cd.pc \in {"idle", "done"}
    /\ cd' = [pc |-> "loop", user |-> user, root |-> rootOid, iterations |-> 0,
              collected |-> <<rootOid>>, frontier |-> <<rootOid>>]
    /\ UNCHANGED <<tasks, nextId, now, resp, pg, rq>>

(* while frontier: one iteration.  A call that returns pops the root and each
   stored task at most once; the model follows a call for one iteration more *)
CollectIterate ==
    /\ cd.pc = "loop"
    /\ cd.frontier # <<>>
    /\ cd.iterations <= Cardinality(DOMAIN tasks \cup {cd.root})
    /\ LET st == CollectStep(tasks, cd.user, cd) IN
       cd' = [cd EXCEPT !.collected = st.collected,
                        !.frontier = st.frontier,
                        !.iterations = cd.iterations + 1]
    /\ UNCHANGED <<tasks, nextId, now, resp, pg, rq>>

(* return collected *)
CollectReturn ==
    /\ cd.pc = "loop"
    /\ cd.frontier = <<>>
    /\ cd' = [cd EXCEPT !.pc = "done"]
    /\ UNCHANGED <<tasks, nextId, now, resp, pg, rq>>

NextTraverse ==
    \/ \E user \in Users, rootOid \in Ids : CollectCall(user, rootOid)
    \/ CollectIterate
    \/ CollectReturn

SpecTraverse == InitTraverse /\ [][NextTraverse]_vars

---------------------------------------------------------------------------
(* The list request over every collection of at most MaxListed tasks in which
   the owner, the completion state, the priority, the due date and the parent
   of each task vary *)

MaxListed == 2

ListDoc(user, completed, priority, due, parentOid) ==
    [user_id |-> user, title |-> "a", description |-> NULL, priority |-> priority,
     estimate_minutes |-> NULL, due_date |-> due, parent_id |-> parentOid,
     completed |-> completed, created_at |-> 1, updated_at |-> 1,
     completed_at |-> IF completed THEN 1 ELSE NULL]

ListDocs(n) ==
    {ListDoc(user, completed, priority, due, parentOid) :
        user \in Users, completed \in BOOLEAN, priority \in Priorities,
        due \in {NULL} \cup DueTexts, parentOid \in {NULL} \cup (1..n)}

(* what the handlers leave behind: every parent is a task of the same owner
   and no task is below itself *)
IsForest(store) ==
    /\ \A i \in DOMAIN store :
          store[i].parent_id # NULL =>
              /\ store[i].parent_id \in DOMAIN store
              /\ store[i].parent_id # i
              /\ store[store[i].parent_id].user_id = store[i].user_id
    /\ \A i \in DOMAIN store, j \in DOMAIN store :
          ~(store[i].parent_id = j /\ store[j].parent_id = i)

ListStores ==
    UNION {{store \in [1..n -> ListDocs(n)] : IsForest(store)} : n \in 0..MaxListed}

SortFields ==
    {"created_at", "updated_at", "due_date", "priority", "estimate_minutes", "title"}

(* the requests that filter: default sort, first page of the default size *)
FilterQueries ==
    ListQueries({"completed", "priority", "due_before", "due_after"},
                {1, 2}, DueTexts, {NULL, NullText} \cup Ids,
                {"created_at"}, {"desc"}, {1}, {20})

(* the requests that sort and page the root tasks or the subtasks of a task *)
PageQueries ==
    ListQueries({}, {1}, {DueZulu}, {NULL} \cup Ids,
                SortFields, {"asc", "desc"}, 1..(MaxListed + 1), 1..MaxListed)

(* the requests served in SpecList: the root tasks due at or after a time,
   or pages of one root task sorted by due date *)
ListRequests ==
    {q \in FilterQueries : q.present = {"due_after"} /\ q.parent_id = NULL}
    \cup {q \in PageQueries :
             q.sort_by = "due_date" /\ q.page_size = 1 /\ q.parent_id = NULL}

InitList ==
    /\ tasks \in ListStores
    /\ nextId = MaxTasks + 1
    /\ now = 1
    /\ resp = Ok("none", NoBody)
    /\ cd = NoCall
    /\ pg = NoCall
    /\ rq = NoRequests

NextList == \E user \in Users, q \in ListRequests : List(user, q)

SpecList == InitList /\ [][NextList]_vars

---------------------------------------------------------------------------
(* The pagination arithmetic of the list request, from count_documents to
   meta, for every total, page and page size up to the bounds *)

MaxTotal == 45
MaxPage == 10
MaxPageSize == 20

InitPage ==
    /\ tasks = [i \in {} |-> NULL]
    /\ nextId = 1
    /\ now = 1
    /\ resp = Ok("none", NoBody)
    /\ cd = NoCall
    /\ pg \in [pc : {"counted"}, total : 0..MaxTotal, page : 1..MaxPage,
               page_size : 1..MaxPageSize, meta : {NoBody}]
    /\ rq = NoRequests

(* lines 359 to 378: last_page, the clamped page and meta *)
Paginate ==
    /\ pg.pc = "counted"
    /\ pg' = [pg EXCEPT !.pc = "done",
                        !.meta = PageMeta(pg.total, pg.page, pg.page_size)]
    /\ UNCHANGED <<tasks, nextId, now, resp, cd, rq>>

NextPage == Paginate

SpecPage == InitPage /\ [][NextPage]_vars

---------------------------------------------------------------------------
(* One owner and at most MaxFieldTasks tasks, with every attribute of the
   request bodies varying *)

MaxFieldTasks == 1

UpdateFields ==
    {"title", "description", "priority", "estimate_minutes", "due_date",
     "parent_id", "completed"}

(* the ids of the tasks and one id that is never stored *)
FieldIds == 1..(MaxFieldTasks + 1)

FieldCreates ==
    CreateBodies(Titles, Descriptions, Priorities, Estimates, {NULL, DueZulu},
                 {NULL, NullText} \cup FieldIds)

FieldUpdates ==
    UpdateBodies(UpdateFields, Titles, Descriptions, Priorities, Estimates,
                 {NULL, DueZulu}, {NULL, NullText} \cup FieldIds)

NextFields ==
    \/ \E p \in FieldCreates :
          nextId <= MaxFieldTasks /\ Create(ClockUser, p, now)
    \/ \E taskId \in FieldIds : Get(ClockUser, taskId)
    \/ \E taskId \in FieldIds, u \in FieldUpdates :
          Patch(ClockUser, taskId, u, now, now)

SpecFields == Init /\ [][NextFields]_vars

---------------------------------------------------------------------------
(* The requests as they arrive: an Authorization header instead of a resolved
   owner.  The body of a request is loaded by the schema of @blp.arguments
   before the handler is entered, and the handler starts with _require_user() *)

NoSub == ""

(* the headers: with or without the "Bearer " prefix, the token of good
   signature and date, expired or not decodable, its "sub" an owner or absent *)
Credentials ==
    {cred \in [bearer : BOOLEAN, token : {"valid", "expired", "invalid"},
               sub : {ClockUser, NoSub}] :
        (~cred.bearer \/ cred.token # "valid") => cred.sub = NoSub}

(* _decode_jwt_from_request(): the payload, or the ValidationError raised *)
DecodeJwtFromRequest(cred) ==
    IF ~cred.bearer THEN [error |-> "Unauthenticated", sub |-> NoSub]
    ELSE IF cred.token # "valid" THEN [error |-> "Unauthenticated", sub |-> NoSub]
    ELSE [error |-> "none", sub |-> cred.sub]

(* _require_user(): the user id, or the ValidationError raised *)
RequireUser(cred) ==
    LET payload == DecodeJwtFromRequest(cred) IN
    IF payload.error # "none" THEN [error |-> payload.error, uid |-> NoSub]
    ELSE IF payload.sub = NoSub THEN [error |-> "Unauthenticated", uid |-> NoSub]
    ELSE [error |-> "none", uid |-> payload.sub]

ListRequest(store, cred, q) ==
    LET auth == RequireUser(cred) IN
    IF auth.error # "none" THEN [tasks |-> store, resp |-> Err("list", auth.error)]
    ELSE ListResult(store, auth.uid, q)

CreateRequest(store, newId, cred, p, nowIso) ==
    LET auth == RequireUser(cred) IN
    IF auth.error # "none" THEN [tasks |-> store, resp |-> Err("create", auth.error)]
    ELSE CreateResult(store, newId, auth.uid, p, nowIso)

GetRequest(store, cred, taskId, includeSubtasks) ==
    LET auth == RequireUser(cred) IN
    IF auth.error # "none" THEN [tasks |-> store, resp |-> Err("get", auth.error)]
    ELSE [tasks |-> store,
          resp |-> IF includeSubtasks THEN GetSubtreeResult(store, auth.uid, taskId)
                   ELSE GetResult(store, auth.uid, taskId)]

(* TaskUpdateSchema rejects the empty body before patch is entered *)
PatchRequest(store, cred, taskId, u, completedAt, updatedAt) ==
    LET auth == RequireUser(cred) IN
    IF u.present = {} THEN [tasks |-> store, resp |-> Err("patch", "EmptyUpdate")]
    ELSE IF auth.error # "none"
    THEN [tasks |-> store, resp |-> Err("patch", auth.error)]
    ELSE PatchResult(store, auth.uid, taskId, u, completedAt, updatedAt)

DeleteRequest(store, cred, taskId, cascade) ==
    LET auth == RequireUser(cred) IN
    IF auth.error # "none" THEN [tasks |-> store, resp |-> Err("delete", auth.error)]
    ELSE DeleteResult(store, auth.uid, taskId, cascade)

CompleteRequest(store, cred, taskId, when) ==
    LET auth == RequireUser(cred) IN
    IF auth.error # "none"
    THEN [tasks |-> store, resp |-> Err("complete", auth.error)]
    ELSE CompleteResult(store, auth.uid, taskId, when)

(* the list request of the model: the root tasks, newest first, on one page *)
AuthQueries ==
    {q \in PageQueries :
        /\ q.parent_id = NULL /\ q.sort_by = "created_at" /\ q.sort_order = "desc"
        /\ q.page = 1 /\ q.page_size = MaxListed}

ServeList(cred, q) ==
    /\ Commit(ListRequest(tasks, cred, q), now)
    /\ UNCHANGED nextId

ServeCreate(cred, p) ==
    /\ Commit(CreateRequest(tasks, nextId, cred, p, now), now)
    /\ nextId' = IF resp'.error = "none" THEN nextId + 1 ELSE nextId
    /\ nextId' <= MaxTasks + 1

ServeGet(cred, taskId, includeSubtasks) ==
    /\ Commit(GetRequest(tasks, cred, taskId, includeSubtasks), now)
    /\ UNCHANGED nextId

ServePatch(cred, taskId, u) ==
    /\ Commit(PatchRequest(tasks, cred, taskId, u, now, now), now)
    /\ UNCHANGED nextId

ServeDelete(cred, taskId, cascade) ==
    /\ Commit(DeleteRequest(tasks, cred, taskId, cascade), now)
    /\ UNCHANGED nextId

ServeComplete(cred, taskId) ==
    /\ Commit(CompleteRequest(tasks, cred, taskId, now), now)
    /\ UNCHANGED nextId

NextAuth ==
    \/ \E cred \in Credentials, q \in AuthQueries : ServeList(cred, q)
    \/ \E cred \in Credentials, p \in TreeCreates : ServeCreate(cred, p)
    \/ \E cred \in Credentials, taskId \in Ids, includeSubtasks \in BOOLEAN :
          ServeGet(cred, taskId, includeSubtasks)
    \/ \E cred \in Credentials, taskId \in Ids, u \in TreeUpdates :
          ServePatch(cred, taskId, u)
    \/ \E cred \in Credentials, taskId \in Ids, cascade \in BOOLEAN :
          ServeDelete(cred, taskId, cascade)
    \/ \E cred \in Credentials, taskId \in Ids : ServeComplete(cred, taskId)

(* One owner and the callers that are not resolved to an owner *)
SpecAuth == Init /\ [][NextAuth]_vars

---------------------------------------------------------------------------
(* One owner and two workers.  A worker takes a request and runs its handler
   one access to the collection at a time (find_one, find, count_documents,
   insert_one, update_one, update_many, delete_one, delete_many), the other
   worker's accesses falling in between.  rq[w] holds the handler's position
   and its local variables. *)

MaxRaceTasks == 2
RaceIds == 1..MaxRaceTasks

RaceCreates == {p \in TreeCreates : ~p.completed /\ p.parent_id \in {NULL} \cup RaceIds}
RaceUpdates ==
    {u \in TreeUpdates : u.present = {"parent_id"} /\ u.parent_id \in {NULL} \cup RaceIds}

(* post, to the lookup of the parent *)
PostLookup(w, p) ==
    /\ rq[w].pc = "idle"
    /\ nextId + Cardinality({v \in Workers : rq[v].pc = "insert"}) <= MaxRaceTasks
    /\ IF CreateParentError(tasks, ClockUser, Oid(p.parent_id)) # "none"
       THEN /\ resp' = Err("create", CreateParentError(tasks, ClockUser, Oid(p.parent_id)))
            /\ rq' = rq
       ELSE /\ resp' = resp
            /\ rq' = [rq EXCEPT ![w] = [Idle EXCEPT !.pc = "insert", !.op = "create",
                                                    !.body = p]]
    /\ UNCHANGED <<tasks, nextId, now, cd, pg>>

(* post, insert_one and the response *)
PostInsert(w) ==
    /\ rq[w].pc = "insert"
    /\ tasks' = (nextId :> NewDoc(ClockUser, rq[w].body, Oid(rq[w].body.parent_id), now))
                    @@ tasks
    /\ resp' = Ok("create", SerializeTask(nextId, tasks'[nextId]))
    /\ nextId' = nextId + 1
    /\ rq' = [rq EXCEPT ![w] = Idle]
    /\ UNCHANGED <<now, cd, pg>>

(* patch, to the scoped lookup of the task *)
PatchLookup(w, taskId, u) ==
    /\ rq[w].pc = "idle"
    /\ IF ~FindOne(tasks, ClockUser, Oid(taskId))
       THEN /\ resp' = Err("patch", "TaskNotFound")
            /\ rq' = rq
       ELSE /\ resp' = resp
            /\ rq' = [rq EXCEPT ![w] =
                        [Idle EXCEPT !.pc = IF Oid(u.parent_id) = NULL
                                            THEN "update" ELSE "parent",
                                     !.op = "patch", !.id = Oid(taskId), !.body = u]]
    /\ UNCHANGED <<tasks, nextId, now, cd, pg>>

(* patch, the lookup of the new parent and the entry of
   _prevent_circular_parent *)
PatchFindParent(w) ==
    /\ rq[w].pc = "parent"
    /\ IF ~FindOne(tasks, ClockUser, Oid(rq[w].body.parent_id))
       THEN /\ resp' = Err("patch", "ParentNotFound")
            /\ rq' = [rq EXCEPT ![w] = Idle]
       ELSE IF rq[w].id = Oid(rq[w].body.parent_id)
       THEN /\ resp' = Err("patch", "CircularParent")
            /\ rq' = [rq EXCEPT ![w] = Idle]
       ELSE /\ resp' = resp
            /\ rq' = [rq EXCEPT ![w].pc = "collect",
                                ![w].collected = <<rq[w].id>>,
                                ![w].frontier = <<rq[w].id>>]
    /\ UNCHANGED <<tasks, nextId, now, cd, pg>>

(* one iteration of the loop of _collect_descendants, in patch, delete or
   complete: one find over the collection as it is now.  A call that returns
   collects no more ids than tasks were ever stored; the model follows a call
   up to that length *)
CollectIteration(w) ==
    /\ rq[w].pc = "collect"
    /\ rq[w].frontier # <<>>
    /\ Len(rq[w].collected) <= MaxRaceTasks
    /\ rq' = [rq EXCEPT ![w].collected = CollectStep(tasks, ClockUser, rq[w]).collected,
                        ![w].frontier = CollectStep(tasks, ClockUser, rq[w]).frontier]
    /\ UNCHANGED <<tasks, nextId, now, resp, cd, pg>>

(* PatchUpdateOne with _prevent_circular_parent run again on the collection
   as it is at the write, in one step with the write *)
PatchUpdateOneRechecked(w) ==
    /\ rq[w].op = "patch"
    /\ rq[w].pc = "update" \/ (rq[w].pc = "collect" /\ rq[w].frontier = <<>>)
    /\ IF rq[w].pc = "collect"
          /\ \/ Oid(rq[w].body.parent_id) \in SeqToSet(rq[w].collected)
             \/ PreventCircularParent(tasks, ClockUser, rq[w].id,
                                      Oid(rq[w].body.parent_id)) # "none"
       THEN /\ resp' = Err("patch", "CircularParent")
            /\ rq' = [rq EXCEPT ![w] = Idle]
            /\ tasks' = tasks
       ELSE /\ resp' = resp
            /\ rq' = [rq EXCEPT ![w].pc = "refetch"]
            /\ tasks' = IF FindOne(tasks, ClockUser, rq[w].id)
                        THEN [tasks EXCEPT ![rq[w].id] =
                                ApplySetOps(tasks[rq[w].id], rq[w].body,
                                            Oid(rq[w].body.parent_id), now, now)]
                        ELSE tasks
    /\ UNCHANGED <<nextId, now, cd, pg>>

(* patch, from the return of _prevent_circular_parent to update_one *)
PatchUpdateOne(w) ==
    /\ rq[w].op = "patch"
    /\ rq[w].pc = "update" \/ (rq[w].pc = "collect" /\ rq[w].frontier = <<>>)
    /\ IF rq[w].pc = "collect"
          /\ Oid(rq[w].body.parent_id) \in SeqToSet(rq[w].collected)
       THEN /\ resp' = Err("patch", "CircularParent")
            /\ rq' = [rq EXCEPT ![w] = Idle]
            /\ tasks' = tasks
       ELSE /\ resp' = resp
            /\ rq' = [rq EXCEPT ![w].pc = "refetch"]
            /\ tasks' = IF FindOne(tasks, ClockUser, rq[w].id)
                        THEN [tasks EXCEPT ![rq[w].id] =
                                ApplySetOps(tasks[rq[w].id], rq[w].body,
                                            Oid(rq[w].body.parent_id), now, now)]
                        ELSE tasks
    /\ UNCHANGED <<nextId, now, cd, pg>>

(* patch, find_one({"_id": oid}) and _serialize_task(updated): doc.get on
   None raises AttributeError *)
PatchRefetch(w) ==
    /\ rq[w].op = "patch"
    /\ rq[w].pc = "refetch"
    /\ resp' = IF rq[w].id \in DOMAIN tasks
               THEN Ok("patch", SerializeTask(rq[w].id, tasks[rq[w].id]))
               ELSE Err("patch", "AttributeError")
    /\ rq' = [rq EXCEPT ![w] = Idle]
    /\ UNCHANGED <<tasks, nextId, now, cd, pg>>

(* delete, to the scoped existence check *)
DeleteLookup(w, taskId, cascade) ==
    /\ rq[w].pc = "idle"
    /\ IF ~FindOne(tasks, ClockUser, Oid(taskId))
       THEN /\ resp' = Err("delete", "TaskNotFound")
            /\ rq' = rq
       ELSE /\ resp' = resp
            /\ rq' = [rq EXCEPT ![w] =
                        [Idle EXCEPT !.pc = IF cascade THEN "collect" ELSE "children",
                                     !.op = "delete", !.id = Oid(taskId),
                                     !.cascade = cascade,
                                     !.collected = IF cascade THEN <<Oid(taskId)>>
                                                   ELSE <<>>,
                                     !.frontier = IF cascade THEN <<Oid(taskId)>>
                                                  ELSE <<>>]]
    /\ UNCHANGED <<tasks, nextId, now, cd, pg>>

(* delete with cascade, delete_many over the ids collected *)
DeleteManyCollected(w) ==
    /\ rq[w].op = "delete"
    /\ rq[w].pc = "collect" /\ rq[w].frontier = <<>>
    /\ tasks' = DeleteMany(tasks, ClockUser, SeqToSet(rq[w].collected))
    /\ resp' = Ok("delete", NoBody)
    /\ rq' = [rq EXCEPT ![w] = Idle]
    /\ UNCHANGED <<nextId, now, cd, pg>>

(* delete without cascade, _has_children *)
DeleteHasChildren(w) ==
    /\ rq[w].pc = "children"
    /\ IF HasChildren(tasks, ClockUser, rq[w].id)
       THEN /\ resp' = Err("delete", "HasChildren")
            /\ rq' = [rq EXCEPT ![w] = Idle]
       ELSE /\ resp' = resp
            /\ rq' = [rq EXCEPT ![w].pc = "delete_one"]
    /\ UNCHANGED <<tasks, nextId, now, cd, pg>>

(* delete without cascade, delete_one *)
DeleteOne(w) ==
    /\ rq[w].pc = "delete_one"
    /\ tasks' = DeleteMany(tasks, ClockUser, {rq[w].id})
    /\ resp' = Ok("delete", NoBody)
    /\ rq' = [rq EXCEPT ![w] = Idle]
    /\ UNCHANGED <<nextId, now, cd, pg>>

(* complete, to the scoped lookup of the task *)
CompleteLookup(w, taskId) ==
    /\ rq[w].pc = "idle"
    /\ IF ~FindOne(tasks, ClockUser, Oid(taskId))
       THEN /\ resp' = Err("complete", "TaskNotFound")
            /\ rq' = rq
       ELSE /\ resp' = resp
            /\ rq' = [rq EXCEPT ![w] =
                        [Idle EXCEPT !.pc = "collect", !.op = "complete",
                                     !.id = Oid(taskId),
                                     !.collected = <<Oid(taskId)>>,
                                     !.frontier = <<Oid(taskId)>>]]
    /\ UNCHANGED <<tasks, nextId, now, cd, pg>>

(* complete, update_many over the ids collected *)
CompleteUpdateMany(w) ==
    /\ rq[w].op = "complete"
    /\ rq[w].pc = "collect" /\ rq[w].frontier = <<>>
    /\ tasks' = CompleteMany(tasks, ClockUser, SeqToSet(rq[w].collected), now)
    /\ rq' = [rq EXCEPT ![w].pc = "refetch"]
    /\ UNCHANGED <<nextId, now, resp, cd, pg>>

(* complete, find_one({"_id": oid}) and _serialize_task(updated) *)
CompleteRefetch(w) ==
    /\ rq[w].op = "complete"
    /\ rq[w].pc = "refetch"
    /\ resp' = IF rq[w].id \in DOMAIN tasks
               THEN Ok("complete", SerializeTask(rq[w].id, tasks[rq[w].id]))
               ELSE Err("complete", "AttributeError")
    /\ rq' = [rq EXCEPT ![w] = Idle]
    /\ UNCHANGED <<tasks, nextId, now, cd, pg>>

NextRace ==
    \/ \E w \in Workers, p \in RaceCreates : PostLookup(w, p)
    \/ \E w \in Workers : PostInsert(w)
    \/ \E w \in Workers, taskId \in RaceIds, u \in RaceUpdates : PatchLookup(w, taskId, u)
    \/ \E w \in Workers : PatchFindParent(w)
    \/ \E w \in Workers : CollectIteration(w)
    \/ \E w \in Workers : PatchUpdateOne(w)
    \/ \E w \in Workers : PatchRefetch(w)
    \/ \E w \in Workers, taskId \in RaceIds, cascade \in BOOLEAN :
          DeleteLookup(w, taskId, cascade)
    \/ \E w \in Workers : DeleteManyCollected(w)
    \/ \E w \in Workers : DeleteHasChildren(w)
    \/ \E w \in Workers : DeleteOne(w)
    \/ \E w \in Workers, taskId \in RaceIds : CompleteLookup(w, taskId)
    \/ \E w \in Workers : CompleteUpdateMany(w)
    \/ \E w \in Workers : CompleteRefetch(w)

SpecRace == Init /\ [][NextRace]_vars

---------------------------------------------------------------------------
(* The parent graph, read off the documents without the traversal code *)

RECURSIVE ReachesUp(_, _, _, _, _)
(* target is met within k steps from task x upwards, each step leaving a
   stored task of the user through its parent_id *)
ReachesUp(store, user, x, target, k) ==
    /\ k > 0
    /\ x \in DOMAIN store
    /\ store[x].user_id = user
    /\ store[x].parent_id # NULL
    /\ \/ store[x].parent_id = target
       \/ ReachesUp(store, user, store[x].parent_id, target, k - 1)

(* the task and everything below it among the user's tasks *)
Subtree(store, user, rootOid) ==
    {rootOid} \cup {x \in DOMAIN store :
                       ReachesUp(store, user, x, rootOid, Cardinality(DOMAIN store))}

Acyclic(store) ==
    \A x \in DOMAIN store :
        ~ReachesUp(store, store[x].user_id, x, x, Cardinality(DOMAIN store))

Owned(store, user) == {i \in DOMAIN store : store[i].user_id = user}

(* the collection without the documents of the other owners *)
OwnOnly(store, user) == [i \in Owned(store, user) |-> store[i]]

(* a task with a child and a grandchild is stored *)
HasDepthTwo(store) ==
    \E i \in DOMAIN store, j \in DOMAIN store :
        store[i].parent_id = j /\ store[j].parent_id # NULL

---------------------------------------------------------------------------
(* C1: after any sequence of create, update, complete and delete requests no
   stored task is reachable from itself along parent_id edges inside its
   owner's tasks. *)
C1_ParentRelationAcyclic == Acyclic(tasks)

(* an update has just moved a task that has a child under another task *)
C1_Witness ==
    /\ resp.op = "patch" /\ resp.error = "none"
    /\ resp.body.parent_id # NULL
    /\ \E c \in DOMAIN tasks : tasks[c].parent_id = resp.body.id

(* C2: after any sequence of requests every stored task has completed = false
   exactly when its completed_at is null. *)
C2_CompletedIffCompletedAt ==
    \A i \in DOMAIN tasks : (tasks[i].completed = FALSE) <=> (tasks[i].completed_at = NULL)

(* an update at a later time has just set completed = false, next to a task
   that is completed *)
C2_Witness ==
    /\ resp.op = "patch" /\ resp.error = "none"
    /\ ~resp.body.completed
    /\ resp.body.updated_at > resp.body.created_at
    /\ \E j \in DOMAIN tasks : tasks[j].completed /\ tasks[j].completed_at # NULL

(* C3: after any sequence of requests every non-null parent_id is the _id of a
   stored task of the same owner. *)
C3_ParentStoredSameOwner ==
    \A i \in DOMAIN tasks :
        tasks[i].parent_id # NULL =>
            /\ tasks[i].parent_id \in DOMAIN tasks
            /\ tasks[tasks[i].parent_id].user_id = tasks[i].user_id

(* a delete has just succeeded, after every id was handed out, and a subtask
   is still stored *)
C3_Witness ==
    /\ resp.op = "delete" /\ resp.error = "none"
    /\ nextId = MaxTasks + 1
    /\ \E i \in DOMAIN tasks : tasks[i].parent_id # NULL

(* the rejection, with the collection left as it was *)
Rejected(r, store, op, kind) ==
    r.tasks = store /\ r.resp = Err(op, kind)

(* C4: an update of the owner's task T whose parent_id is T itself or a task
   below T (a member of collect_descendants on the tree before the update) is
   rejected with CircularParent and changes no stored task. *)
C4_CircularUpdateRejected ==
    \A user \in Users : \A T \in Owned(tasks, user), u \in TreeUpdates :
        ( /\ "parent_id" \in u.present
          /\ u.parent_id # NULL
          /\ \/ u.parent_id = T
             \/ u.parent_id \in SeqToSet(CollectDescendants(tasks, user, T))
             \/ u.parent_id \in Subtree(tasks, user, T) )
        => Rejected(PatchResult(tasks, user, T, u, now, now), tasks,
                    "patch", "CircularParent")

(* an update has just been rejected as circular while a task with a child and
   a grandchild is stored *)
C4_Witness ==
    /\ resp.op = "patch" /\ resp.error = "CircularParent"
    /\ HasDepthTwo(tasks)

(* C5: a call of collect_descendants ends: it runs no more iterations than
   there are ids to pop, the root and the stored tasks (a call that ends pops
   every id at most once, since a task is pushed once for each time its one
   parent is popped; a call that pops an id twice pops it forever). *)
C5_CollectDescendantsTerminates ==
    cd.pc = "loop" => cd.iterations <= Cardinality(DOMAIN tasks \cup {cd.root})

(* C6: on a forest, collect_descendants(owner, T) returns T and exactly the
   owner's tasks below T. *)
C6_CollectDescendantsExact ==
    (cd.pc = "done" /\ Acyclic(tasks)) =>
        SeqToSet(cd.collected) = Subtree(tasks, cd.user, cd.root)

(* a call on a task that has a parent and a child has returned *)
C6_Witness ==
    /\ cd.pc = "done" /\ Acyclic(tasks)
    /\ FindOne(tasks, cd.user, cd.root)
    /\ tasks[cd.root].parent_id # NULL
    /\ \E c \in DOMAIN tasks : tasks[c].parent_id = cd.root

(* C7: delete without cascade of an owner's task that has a child fails with
   HasChildren and leaves every stored task as it was. *)
C7_DeleteWithChildrenBlocked ==
    \A user \in Users : \A T \in Owned(tasks, user) :
        (\E c \in DOMAIN tasks : tasks[c].parent_id = T)
        => Rejected(DeleteResult(tasks, user, T, FALSE), tasks,
                    "delete", "HasChildren")

(* such a delete has just been refused *)
C7_Witness ==
    /\ resp.op = "delete" /\ resp.error = "HasChildren"
    /\ \E c \in DOMAIN tasks : tasks[c].parent_id # NULL

(* what a successful delete leaves: the collection without the tasks in gone *)
DeleteFrame(r, store, gone) ==
    r.resp.error = "none" => r.tasks = Remove(store, gone)

(* C8: a successful delete removes exactly collect_descendants(owner, T) with
   cascade, and T alone (which then has no child) without it; every other
   stored task, of any owner, is unchanged. *)
C8_DeleteRemovesExactly ==
    \A user \in Users, T \in Ids :
        /\ SeqToSet(CollectDescendants(tasks, user, T)) = Subtree(tasks, user, T)
        /\ DeleteFrame(DeleteResult(tasks, user, T, TRUE), tasks,
                       Subtree(tasks, user, T))
        /\ DeleteFrame(DeleteResult(tasks, user, T, FALSE), tasks, {T})
        /\ DeleteResult(tasks, user, T, FALSE).resp.error = "none"
              => ~\E c \in DOMAIN tasks : tasks[c].parent_id = T

(* a delete has just succeeded after every id was handed out, and what is
   left is one task of each owner *)
C8_Witness ==
    /\ resp.op = "delete" /\ resp.error = "none"
    /\ nextId = MaxTasks + 1
    /\ \A user \in Users : Cardinality(Owned(tasks, user)) = 1

(* the collection after complete: the tasks in done are completed at when,
   the others are as they were *)
CompleteFrame(r, store, done, when) ==
    /\ r.resp.error = "none"
    /\ DOMAIN r.tasks = DOMAIN store
    /\ \A i \in DOMAIN store :
          r.tasks[i] = IF i \in done
                       THEN [store[i] EXCEPT !.completed = TRUE,
                                             !.completed_at = when,
                                             !.updated_at = when]
                       ELSE store[i]

(* C9: complete(owner, T) sets completed = true and completed_at = updated_at
   = t, one t for the whole call, on exactly collect_descendants(owner, T),
   the tasks already completed included, and changes no other task. *)
C9_CompleteCascadesExactly ==
    \A T \in Owned(tasks, ClockUser), when \in Times :
        /\ SeqToSet(CollectDescendants(tasks, ClockUser, T)) = Subtree(tasks, ClockUser, T)
        /\ CompleteFrame(CompleteResult(tasks, ClockUser, T, when), tasks,
                         Subtree(tasks, ClockUser, T), when)

(* a complete at a later time has just stamped a task and its child, and a
   task outside keeps an older stamp *)
C9_Witness ==
    /\ resp.op = "complete" /\ resp.error = "none"
    /\ resp.body.completed_at > resp.body.created_at
    /\ \E c \in DOMAIN tasks :
          /\ tasks[c].parent_id = resp.body.id
          /\ tasks[c].completed_at = resp.body.completed_at
    /\ \E o \in DOMAIN tasks : tasks[o].updated_at < resp.body.completed_at

(* the outcome for an id that is not stored at all *)
Missing(r, store, op) ==
    r.tasks = store /\ r.resp = Err(op, "TaskNotFound")

(* C10: get, update, delete and complete on the id of another owner's task
   answer TaskNotFound, as for an id that is not stored, and leave the
   collection unchanged; the response to any of the caller's requests is the
   one the collection without the other owners' tasks would give. *)
C10_OtherOwnersInvisible ==
    \A user \in Users, id \in Ids :
        LET own == OwnOnly(tasks, user) IN
        /\ GetResult(tasks, user, id) = GetResult(own, user, id)
        /\ DeleteResult(tasks, user, id, TRUE).resp = DeleteResult(own, user, id, TRUE).resp
        /\ DeleteResult(tasks, user, id, FALSE).resp = DeleteResult(own, user, id, FALSE).resp
        /\ CompleteResult(tasks, user, id, now).resp = CompleteResult(own, user, id, now).resp
        /\ \A u \in TreeUpdates :
              PatchResult(tasks, user, id, u, now, now).resp
                  = PatchResult(own, user, id, u, now, now).resp
        /\ (id \in DOMAIN tasks /\ tasks[id].user_id # user) =>
              /\ GetResult(tasks, user, id) = Err("get", "TaskNotFound")
              /\ Missing(DeleteResult(tasks, user, id, TRUE), tasks, "delete")
              /\ Missing(DeleteResult(tasks, user, id, FALSE), tasks, "delete")
              /\ Missing(CompleteResult(tasks, user, id, now), tasks, "complete")
              /\ \A u \in TreeUpdates :
                    u.present # {} =>
                        Missing(PatchResult(tasks, user, id, u, now, now), tasks, "patch")

(* a request has just been answered TaskNotFound while every id is stored and
   both owners have tasks: the id was another owner's *)
C10_Witness ==
    /\ resp.error = "TaskNotFound"
    /\ DOMAIN tasks = Ids
    /\ \A user \in Users : Owned(tasks, user) # {}

(* C11: create, and update of one of the caller's tasks, given a non-null
   parent_id that is not stored or is stored for another owner answer
   ParentNotFound; no task is inserted and no stored task is modified. *)
C11_ParentNotFoundRejected ==
    \A user \in Users :
        /\ \A p \in TreeCreates :
              (p.parent_id # NULL /\ p.parent_id \notin Owned(tasks, user))
              => Rejected(CreateResult(tasks, nextId, user, p, now), tasks,
                          "create", "ParentNotFound")
        /\ \A T \in Owned(tasks, user), u \in TreeUpdates :
              ( /\ "parent_id" \in u.present
                /\ u.parent_id # NULL
                /\ u.parent_id \notin Owned(tasks, user) )
              => Rejected(PatchResult(tasks, user, T, u, now, now), tasks,
                          "patch", "ParentNotFound")

(* an update has just been answered ParentNotFound while every id is stored:
   the parent it named is a task of the other owner *)
C11_Witness ==
    /\ resp.op = "patch" /\ resp.error = "ParentNotFound"
    /\ DOMAIN tasks = Ids

(* the least number of pages of size d that hold n items *)
CeilDiv(n, d) == CHOOSE k \in 0..n : k * d >= n /\ (k = 0 \/ (k - 1) * d < n)

(* the metadata the claim describes for a page size *)
TotalPagesAtLeastOne(body, pageSize) ==
    /\ body.meta.total_pages = Max(1, CeilDiv(body.meta.total, pageSize))
    /\ body.meta.last_page = body.meta.total_pages
    /\ body.meta.total = 0 => (body.meta.total_pages = 1 /\ body.items = <<>>)

(* C12: the metadata of every list response has total_pages = max(1,
   ceil(total / page_size)) and last_page = total_pages; an empty result has
   total = 0, total_pages = 1 and no items. *)
C12_TotalPagesAtLeastOne ==
    \A user \in Users, q \in PageQueries :
        TotalPagesAtLeastOne(ListResult(tasks, user, q).resp.body, q.page_size)

(* C13: for every total, page size and requested page, the response names the
   requested page clamped into 1..max(1, ceil(total / page_size)), which is
   its last_page; previous_page is page - 1 and absent exactly on page 1,
   next_page is page + 1 and absent exactly on the last page; total 45 in
   pages of 20 with page 10 requested gives 3 pages, page 3, previous page 2
   and no next page. *)
C13_PageClampedWithNeighbours ==
    pg.pc = "done" =>
        /\ pg.meta.last_page = Max(1, CeilDiv(pg.total, pg.page_size))
        /\ pg.meta.page = (IF pg.page > pg.meta.last_page
                           THEN pg.meta.last_page ELSE pg.page)
        /\ pg.meta.previous_page =
              (IF pg.meta.page = 1 THEN NULL ELSE pg.meta.page - 1)
        /\ pg.meta.next_page =
              (IF pg.meta.page = pg.meta.last_page THEN NULL ELSE pg.meta.page + 1)
        /\ (pg.total = 45 /\ pg.page_size = 20 /\ pg.page = 10) =>
              /\ pg.meta.total_pages = 3
              /\ pg.meta.page = 3
              /\ pg.meta.previous_page = 2
              /\ pg.meta.next_page = NULL

(* the metadata for page 10 of 45 items in pages of 20 has been computed *)
C13_Witness ==
    /\ pg.pc = "done"
    /\ pg.total = 45 /\ pg.page_size = 20 /\ pg.page = 10
    /\ pg.meta.page = 3

(* the instant a due_date string of the model denotes: midnight UTC of the
   first day in either notation, or of the second day *)
Instant(due) == IF due = DueNextDay THEN 2 ELSE 1

(* the task is one the claim says the request matches *)
ClaimedMatch(doc, user, q) ==
    /\ doc.user_id = user
    /\ "completed" \in q.present => doc.completed = q.completed
    /\ "priority" \in q.present => doc.priority = q.priority
    /\ "due_before" \in q.present =>
          doc.due_date # NULL /\ Instant(doc.due_date) <= Instant(q.due_before)
    /\ "due_after" \in q.present =>
          doc.due_date # NULL /\ Instant(doc.due_date) >= Instant(q.due_after)
    /\ IF q.parent_id \in {NULL, NullText}
       THEN doc.parent_id = NULL
       ELSE doc.parent_id = q.parent_id

(* the ids of the items of a list response *)
ItemIds(body) == {body.items[k].id : k \in DOMAIN body.items}

ListsExactly(body, claimed) ==
    /\ ItemIds(body) = claimed
    /\ body.meta.total = Cardinality(claimed)

(* C14: a list request matches exactly the caller's stored tasks that pass
   every filter given (completed, priority, due_date at or after due_after
   and at or before due_before); without parent_id only root tasks match,
   with parent_id = P only the tasks whose parent is P. *)
C14_ListMatchesFilters ==
    \A user \in Users, q \in FilterQueries :
        ListsExactly(ListResult(tasks, user, q).resp.body,
                     {i \in DOMAIN tasks : ClaimedMatch(tasks[i], user, q)})

(* the key (sort_by, id) of task a is before that of task b, ascending *)
KeyBelow(store, field, a, b) ==
    \/ SortValue(store[a], field) < SortValue(store[b], field)
    \/ SortValue(store[a], field) = SortValue(store[b], field) /\ a < b

(* the number of tasks of the set that are ordered before task a *)
Position(store, q, among, a) ==
    Cardinality({b \in among :
                    IF q.sort_order = "asc"
                    THEN KeyBelow(store, q.sort_by, b, a)
                    ELSE KeyBelow(store, q.sort_by, a, b)})

(* the items are the tasks at the positions of the page, in order *)
IsPageOf(body, store, q, among) ==
    LET first == (body.meta.page - 1) * q.page_size IN
    /\ \A k \in DOMAIN body.items :
          /\ body.items[k].id \in among
          /\ Position(store, q, among, body.items[k].id) = first + k - 1
    /\ Len(body.items) =
          Cardinality({a \in among :
                          /\ Position(store, q, among, a) >= first
                          /\ Position(store, q, among, a) <= first + q.page_size - 1})

(* C15: the items of a list response are the matching tasks at positions
   (p - 1) * page_size to (p - 1) * page_size + page_size - 1, p the page of
   the response, in the order of the key (sort_by, id) taken in the requested
   direction. *)
C15_PageOfSortedMatches ==
    \A user \in Users, q \in PageQueries :
        IsPageOf(ListResult(tasks, user, q).resp.body, tasks, q,
                 {i \in Owned(tasks, user) : tasks[i].parent_id = q.parent_id})

(* the second page of one item has just been returned while the caller's two
   root tasks have the same due date *)
C15_Witness ==
    /\ resp.op = "list"
    /\ resp.body.meta.page = 2
    /\ Len(resp.body.items) = 1
    /\ \E i \in DOMAIN tasks, j \in DOMAIN tasks :
          /\ i # j
          /\ tasks[i].user_id = resp.body.items[1].user_id
          /\ tasks[j].user_id = resp.body.items[1].user_id
          /\ tasks[i].parent_id = NULL /\ tasks[j].parent_id = NULL
          /\ tasks[i].due_date = tasks[j].due_date

(* the second of two cascade deletes of a task reports no error and changes
   nothing *)
SecondDeleteQuiet(first, user, T) ==
    first.resp.error = "none" =>
        /\ DeleteResult(first.tasks, user, T, TRUE).resp.error = "none"
        /\ DeleteResult(first.tasks, user, T, TRUE).tasks = first.tasks

(* the second of two cascade deletes of a task finds no task *)
SecondDeleteMissing(first, user, T) ==
    /\ first.resp.error = "none"
    /\ Missing(DeleteResult(first.tasks, user, T, TRUE), first.tasks, "delete")

(* C16 as claimed: a cascade delete called again on a root that a cascade
   delete has removed with its subtree reports no error and changes no stored
   task. *)
C16_SecondCascadeDeleteNoError ==
    \A user \in Users : \A T \in Owned(tasks, user) :
        SecondDeleteQuiet(DeleteResult(tasks, user, T, TRUE), user, T)

(* C16 as amended: a cascade delete called again on a root that a cascade
   delete has removed with its subtree changes no stored task and is answered
   TaskNotFound. *)
C16_SecondCascadeDeleteNotFound ==
    \A user \in Users : \A T \in Owned(tasks, user) :
        SecondDeleteMissing(DeleteResult(tasks, user, T, TRUE), user, T)

(* a delete has just been answered TaskNotFound when every id had been handed
   out and every task deleted: the id was that of a deleted task *)
C16_Witness ==
    /\ resp.op = "delete" /\ resp.error = "TaskNotFound"
    /\ nextId = MaxTasks + 1
    /\ DOMAIN tasks = {}

(* the retry at time again keeps completed and completed_at of every task *)
RetryKeepsStamps(first, T, again) ==
    /\ CompleteResult(first.tasks, ClockUser, T, again).resp.error = "none"
    /\ \A i \in DOMAIN first.tasks :
          /\ CompleteResult(first.tasks, ClockUser, T, again).tasks[i].completed
                = first.tasks[i].completed
          /\ CompleteResult(first.tasks, ClockUser, T, again).tasks[i].completed_at
                = first.tasks[i].completed_at

(* the retry at time again stamps the task and the tasks below it anew and
   keeps everything else *)
RetryRestamps(first, second, T, when, again) ==
    /\ first.resp.error = "none" /\ second.resp.error = "none"
    /\ DOMAIN second.tasks = DOMAIN first.tasks
    /\ \A i \in DOMAIN first.tasks :
          /\ second.tasks[i].completed = first.tasks[i].completed
          /\ second.tasks[i] =
                IF i \in Subtree(first.tasks, ClockUser, T)
                THEN [first.tasks[i] EXCEPT !.completed_at = again,
                                            !.updated_at = again]
                ELSE first.tasks[i]
    /\ again = when => second.tasks = first.tasks

RetryOf(first, T, again) == CompleteResult(first.tasks, ClockUser, T, again)

(* C17 as claimed: a second complete(owner, T) right after the first leaves
   completed and completed_at of T, of the tasks below it and of every other
   task as the first call produced them. *)
C17_CompleteRetryKeepsStamps ==
    \A T \in Owned(tasks, ClockUser), when \in Times, again \in Times :
        (now <= when /\ when <= again) =>
            RetryKeepsStamps(CompleteResult(tasks, ClockUser, T, when), T, again)

(* C17 as amended: a second complete(owner, T) right after the first leaves
   the completed flag of every task and every task outside T and the tasks
   below it as the first call produced them, and writes completed_at and
   updated_at of T and the tasks below it again with its own timestamp; they
   keep the first call's values when the clock reads the same. *)
C17_CompleteRetryRestamps ==
    \A T \in Owned(tasks, ClockUser), when \in Times, again \in Times :
        (now <= when /\ when <= again) =>
            RetryRestamps(CompleteResult(tasks, ClockUser, T, when),
                          RetryOf(CompleteResult(tasks, ClockUser, T, when), T, again),
                          T, when, again)

(* a complete has just stamped a task and its subtask, and the clock can
   still advance before the retry *)
C17_Witness ==
    /\ resp.op = "complete" /\ resp.error = "none"
    /\ now < MaxTime
    /\ \E c \in DOMAIN tasks :
          /\ tasks[c].parent_id = resp.body.id
          /\ tasks[c].completed_at = resp.body.completed_at

(* the attributes a body sets as they are *)
CopiedFields == {"title", "description", "priority", "estimate_minutes", "due_date"}

(* after a successful update of task T the fields of the body have the body's
   values, completed_at follows completed, updated_at is the time of the
   update, and everything else is as before *)
SparsePatch(r, store, T, u, completedAt, updatedAt) ==
    r.resp.error = "none" =>
        /\ DOMAIN r.tasks = DOMAIN store
        /\ \A i \in DOMAIN store \ {T} : r.tasks[i] = store[i]
        /\ \A f \in CopiedFields \cup {"completed"} :
              r.tasks[T][f] = IF f \in u.present THEN u[f] ELSE store[T][f]
        /\ r.tasks[T].parent_id =
              IF "parent_id" \notin u.present THEN store[T].parent_id
              ELSE IF u.parent_id = NullText THEN NULL
              ELSE u.parent_id
        /\ r.tasks[T].completed_at =
              IF "completed" \notin u.present THEN store[T].completed_at
              ELSE IF u.completed THEN completedAt
              ELSE NULL
        /\ r.tasks[T].updated_at = updatedAt
        /\ r.tasks[T].user_id = store[T].user_id
        /\ r.tasks[T].created_at = store[T].created_at
        /\ r.resp.body.id = T

(* C18: a successful update of task T changes on T only the fields present
   in the body, completed_at when completed is present, and updated_at; T's
   id, owner, created_at and every attribute absent from the body keep their
   values. *)
C18_UpdateIsSparse ==
    \A T \in Owned(tasks, ClockUser), u \in FieldUpdates,
       completedAt \in Times, updatedAt \in Times :
        (now <= completedAt /\ completedAt <= updatedAt) =>
            SparsePatch(PatchResult(tasks, ClockUser, T, u, completedAt, updatedAt),
                        tasks, T, u, completedAt, updatedAt)

(* an update has just succeeded on a task that has a description, a due date
   and a priority *)
C18_Witness ==
    /\ resp.op = "patch" /\ resp.error = "none"
    /\ resp.body.description # NULL
    /\ resp.body.due_date # NULL
    /\ resp.body.priority # NULL

(* get of the created task answers with the values of the body *)
ReadsBack(got, p, nowIso) ==
    /\ got.error = "none"
    /\ \A f \in CopiedFields \cup {"completed"} : got.body[f] = p[f]
    /\ got.body.parent_id = (IF p.parent_id = NullText THEN NULL ELSE p.parent_id)
    /\ got.body.completed_at = (IF p.completed THEN nowIso ELSE NULL)
    /\ (p.parent_id = NULL /\ ~p.completed) =>
          /\ got.body.completed = FALSE
          /\ got.body.completed_at = NULL
          /\ got.body.parent_id = NULL

RoundTrip(created, p, nowIso) ==
    created.resp.error = "none" =>
        ReadsBack(GetResult(created.tasks, ClockUser, created.resp.body.id), p, nowIso)

(* C20: get of the id a create returned answers with the title given,
   completed = false, completed_at = null and parent_id = null when none was
   given, and in general with the attribute values given at creation. *)
C20_GetAfterCreate ==
    \A p \in FieldCreates, nowIso \in Times :
        nowIso >= now =>
            RoundTrip(CreateResult(tasks, nextId, ClockUser, p, nowIso), p, nowIso)

(* get has just answered with a task that has the second title, a
   description, a priority, an estimate and a due date *)
C20_Witness ==
    /\ resp.op = "get" /\ resp.error = "none"
    /\ resp.body.title = "b"
    /\ resp.body.description # NULL
    /\ resp.body.priority # NULL
    /\ resp.body.estimate_minutes # NULL
    /\ resp.body.due_date # NULL

RECURSIVE Flatten(_)
(* the sequences of a sequence of sequences, one after the other *)
Flatten(seqs) ==
    IF seqs = <<>> THEN <<>> ELSE Head(seqs) \o Flatten(Tail(seqs))

RECURSIVE NodeIds(_)
(* the ids of the nodes of a tree, each as often as it occurs *)
NodeIds(node) ==
    <<node.id>> \o Flatten([k \in DOMAIN node.subtasks |-> NodeIds(node.subtasks[k])])

RECURSIVE NestedUnderParent(_)
(* every node below this one is directly under the node its parent_id names *)
NestedUnderParent(node) ==
    \A k \in DOMAIN node.subtasks :
        /\ node.subtasks[k].parent_id = node.id
        /\ NestedUnderParent(node.subtasks[k])

IsSubtreeOf(r, store, user, rootId) ==
    /\ r.error = "none"
    /\ r.body.id = rootId
    /\ SeqToSet(NodeIds(r.body)) = SeqToSet(CollectDescendants(store, user, rootId))
    /\ SeqToSet(NodeIds(r.body)) = Subtree(store, user, rootId)
    /\ Len(NodeIds(r.body)) = Cardinality(SeqToSet(NodeIds(r.body)))
    /\ NestedUnderParent(r.body)

(* C19: get with include_subtasks=true answers with a tree rooted at the
   task whose nodes are exactly collect_descendants(owner, id), each once and
   each directly under its parent; for an id that is not stored or is another
   owner's it answers TaskNotFound and no data. *)
C19_SubtreeIsDescendants ==
    \A user \in Users, id \in Ids :
        IF id \in Owned(tasks, user)
        THEN IsSubtreeOf(GetSubtreeResult(tasks, user, id), tasks, user, id)
        ELSE GetSubtreeResult(tasks, user, id) = Err("get", "TaskNotFound")

(* get has just answered with a tree of a task, its subtask and the subtask
   of that one *)
C19_Witness ==
    /\ resp.op = "get" /\ resp.error = "none"
    /\ "subtasks" \in DOMAIN resp.body
    /\ \E k \in DOMAIN resp.body.subtasks : resp.body.subtasks[k].subtasks # <<>>

---------------------------------------------------------------------------
(* C21: an update whose body holds none of the fields of TaskUpdateSchema is
   rejected with EmptyUpdate whatever its target and whenever it is served,
   and no stored task changes: the target keeps its updated_at. *)
C21_EmptyUpdateRejected ==
    \A taskId \in Ids, u \in ClockUpdates, completedAt \in Times, updatedAt \in Times :
        u.present = {} =>
            Rejected(PatchResult(tasks, ClockUser, taskId, u, completedAt, updatedAt),
                     tasks, "patch", "EmptyUpdate")

(* an empty update has just been rejected at a time later than the last
   change of a stored task *)
C21_Witness ==
    /\ resp = Err("patch", "EmptyUpdate")
    /\ \E i \in DOMAIN tasks : tasks[i].updated_at < now

---------------------------------------------------------------------------
(* the header does not resolve to an owner *)
Unresolved(cred) == RequireUser(cred).error # "none"

(* C22: each of create, list, get, update, delete and complete, called with a
   header that does not resolve to an owner, is rejected with Unauthenticated
   and leaves the collection as it was. *)
C22_UnauthenticatedRejected ==
    \A cred \in Credentials :
        Unresolved(cred) =>
            /\ \A q \in AuthQueries :
                  Rejected(ListRequest(tasks, cred, q), tasks, "list", "Unauthenticated")
            /\ \A p \in TreeCreates :
                  Rejected(CreateRequest(tasks, nextId, cred, p, now),
                           tasks, "create", "Unauthenticated")
            /\ \A taskId \in Ids, includeSubtasks \in BOOLEAN :
                  Rejected(GetRequest(tasks, cred, taskId, includeSubtasks),
                           tasks, "get", "Unauthenticated")
            /\ \A taskId \in Ids, u \in TreeUpdates :
                  Rejected(PatchRequest(tasks, cred, taskId, u, now, now),
                           tasks, "patch", "Unauthenticated")
            /\ \A taskId \in Ids, cascade \in BOOLEAN :
                  Rejected(DeleteRequest(tasks, cred, taskId, cascade),
                           tasks, "delete", "Unauthenticated")
            /\ \A taskId \in Ids :
                  Rejected(CompleteRequest(tasks, cred, taskId, now),
                           tasks, "complete", "Unauthenticated")

---------------------------------------------------------------------------
(* every stored task but T is in r as it is in store, and no task was added
   or removed *)
OthersKept(r, store, T) ==
    /\ DOMAIN r.tasks = DOMAIN store
    /\ \A i \in DOMAIN store \ {T} : r.tasks[i] = store[i]

(* C24: update(owner, T, ...) changes no stored task other than T; with
   completed = true on a task that has descendants, the descendants keep
   their completed and completed_at. *)
C24_UpdateTouchesTargetOnly ==
    \A user \in Users, T \in Ids, u \in TreeUpdates :
        OthersKept(PatchResult(tasks, user, T, u, now, now), tasks, T)

(* an update has just set completed = true on a task whose subtask and the
   subtask of that one are not completed *)
C24_Witness ==
    /\ resp.op = "patch" /\ resp.error = "none"
    /\ resp.body.completed
    /\ \E c \in DOMAIN tasks, g \in DOMAIN tasks :
          /\ tasks[c].parent_id = resp.body.id /\ tasks[g].parent_id = c
          /\ ~tasks[c].completed /\ tasks[c].completed_at = NULL
          /\ ~tasks[g].completed /\ tasks[g].completed_at = NULL

---------------------------------------------------------------------------
(* the requests of C25: the first page, of every size, of every sort of the
   root tasks or of the subtasks of a task, and of the root tasks filtered by
   completion *)
FirstPages ==
    {q \in PageQueries : q.page = 1}
    \cup ListQueries({"completed"}, {1}, {DueZulu}, {NULL}, {"due_date"},
                     {"asc", "desc"}, {1}, 1..MaxListed)

(* the ids of the items of a response, in order *)
ItemSeq(body) == [k \in DOMAIN body.items |-> body.items[k].id]

RECURSIVE PagesFrom(_, _, _, _, _)
(* the items of pages k to last of the request, page after page *)
PagesFrom(store, user, q, k, last) ==
    IF k > last THEN <<>>
    ELSE ItemSeq(ListResult(store, user, [q EXCEPT !.page = k]).resp.body)
             \o PagesFrom(store, user, q, k + 1, last)

(* the sequence holds each member of the set once and nothing else *)
EachOnce(seq, members) ==
    /\ SeqToSet(seq) = members
    /\ Len(seq) = Cardinality(members)

(* the pages of the request, from the first to total_pages, hold each
   matching task once, total items in all *)
PagesPartition(first, store, user, q) ==
    /\ EachOnce(PagesFrom(store, user, q, 1, first.meta.total_pages),
                FindMatching(store, user, q))
    /\ Len(PagesFrom(store, user, q, 1, first.meta.total_pages)) = first.meta.total

(* C25: on a fixed collection, for a fixed filter, sort and page_size, the
   items of pages 1 to total_pages are pairwise disjoint and together hold
   every matching task exactly once: their number is total. *)
C25_PagesPartitionMatches ==
    \A user \in Users, q \in FirstPages :
        PagesPartition(ListResult(tasks, user, q).resp.body, tasks, user, q)

(* the last of two pages of one item each has just been returned *)
C25_Witness ==
    /\ resp.op = "list"
    /\ resp.body.meta.total = 2 /\ resp.body.meta.total_pages = 2
    /\ resp.body.meta.page = 2 /\ resp.body.meta.next_page = NULL
    /\ Len(resp.body.items) = 1

---------------------------------------------------------------------------
(* worker w runs a patch that has returned from _prevent_circular_parent
   without an error: the new parent was not among the descendants it read *)
PassedCycleCheck(w) ==
    /\ rq[w].op = "patch"
    /\ rq[w].pc = "collect" /\ rq[w].frontier = <<>>
    /\ Oid(rq[w].body.parent_id) \notin SeqToSet(rq[w].collected)

(* C23: the cycle check of an update reads a snapshot and is not atomic with
   the write: an update that has passed prevent_circular_parent writes its
   parent_id whatever the other worker has written since, so that of two
   interleaved updates, A under B and B under A, both commit and leave a
   parent_id cycle. *)
C23_WriteFollowsStaleCheck ==
    [][\A w \in Workers :
          ( /\ PassedCycleCheck(w)
            /\ rq'[w] # rq[w]
            /\ FindOne(tasks, ClockUser, rq[w].id) )
          => /\ rq'[w].pc = "refetch"
             /\ tasks'[rq[w].id].parent_id = Oid(rq[w].body.parent_id)]_vars

(* two updates, each of which found its task without subtasks, have both
   written: each of the two tasks is the parent of the other *)
C23_Witness ==
    \E w \in Workers, v \in Workers :
        /\ w # v
        /\ rq[w].op = "patch" /\ rq[w].pc = "refetch" /\ rq[w].collected = <<rq[w].id>>
        /\ rq[v].op = "patch" /\ rq[v].pc = "refetch" /\ rq[v].collected = <<rq[v].id>>
        /\ rq[w].id # rq[v].id
        /\ FindOne(tasks, ClockUser, rq[w].id) /\ FindOne(tasks, ClockUser, rq[v].id)
        /\ tasks[rq[w].id].parent_id = rq[v].id
        /\ tasks[rq[v].id].parent_id = rq[w].id

---------------------------------------------------------------------------
(* C26: when the task of an update or of a complete is deleted by the other
   worker between the scoped lookup and the final re-fetch, the request still
   ends with a declared outcome, the serialized task or TaskNotFound, and not
   with the failure of serializing a missing document. *)
C26_RefetchOfDeletedDeclared ==
    [][\A w \in Workers :
          ( /\ rq[w].pc = "refetch"
            /\ rq[w].id \notin DOMAIN tasks
            /\ rq'[w] # rq[w] )
          => \/ resp' = Err(rq[w].op, "TaskNotFound")
             \/ resp'.op = rq[w].op /\ resp'.error = "none"]_vars

---------------------------------------------------------------------------
(* C27: whatever the interleaving of a delete of T with a create under T or
   an update that moves a task under T, once the requests have finished every
   stored task with a parent_id has its parent stored: no task is left
   pointing at the deleted T. *)
C27_NoChildOfDeleted ==
    (\A w \in Workers : rq[w] = Idle) =>
        \A i \in DOMAIN tasks :
            tasks[i].parent_id # NULL => tasks[i].parent_id \in DOMAIN tasks

====
